---- MODULE Spec2Model ----
(***************************************************************************)
(* Model of model/metric.go: Metric (a label map), its canonical String    *)
(* rendering, and COWMetric, the copy-on-write holder around a Metric.     *)
(*                                                                         *)
(* Strings are sequences of byte values.  A Metric is a Go map, i.e. a     *)
(* reference: maps live in `heap`, a Metric value is an address into it    *)
(* (Nil for the zero-value map).                                           *)
(***************************************************************************)
EXTENDS Integers, Sequences, FiniteSets

VARIABLES
    heap,   \* the maps allocated so far: heap[a] is the label mapping at address a
    x,      \* the COWMetric X: [Copied, Metric]
    y,      \* the Metric reference another holder Y keeps (the map X was built around)
    born,   \* history: X's Copied flag and the wrapped labels at construction
    clones, \* history: number of Metric.Clone calls made so far
    last,   \* history: the latest call, its arguments, the state before it, its result
    clone,  \* the Metric reference y.Clone() returned (Nil before the call)
    x2,     \* a second COWMetric built around the same Metric as X
    want,   \* history: per COWMetric, M's labels at construction with its own edits applied
    thr     \* per thread calling into X concurrently: its call, position and locals

vars == <<heap, x, y, born, clones, last, clone, x2, want, thr>>

----------------------------------------------------------------------------
(* Bounds and input universes *)

\* Largest number of labels a Metric holds in the model.
MaxLabels == 2

\* "__name__"
MetricNameLabel == <<95, 95, 110, 97, 109, 101, 95, 95>>

\* "a", "a1", "b"
LabelA == <<97>>
LabelA1 == <<97, 49>>
LabelB == <<98>>

LabelNames == {MetricNameLabel, LabelA, LabelA1, LabelB}

\* "v" and the one-character value consisting of a double quote
LabelValues == {<<118>>, <<34>>}

\* The zero-value (nil) map reference.
Nil == 0

Metrics ==
    UNION {[S -> LabelValues] : S \in {T \in SUBSET LabelNames : Cardinality(T) <= MaxLabels}}

----------------------------------------------------------------------------
(* Byte strings *)

\* Go's string comparison s < t: lexicographic by byte.
RECURSIVE StrLess(_, _)
StrLess(s, t) ==
    IF t = <<>> THEN FALSE
    ELSE IF s = <<>> THEN TRUE
    ELSE IF Head(s) # Head(t) THEN Head(s) < Head(t)
    ELSE StrLess(Tail(s), Tail(t))

\* Insert string s into the ascending sequence ss.
RECURSIVE InsertSorted(_, _)
InsertSorted(s, ss) ==
    IF ss = <<>> THEN <<s>>
    ELSE IF StrLess(Head(ss), s) THEN <<Head(ss)>> \o InsertSorted(s, Tail(ss))
    ELSE <<s>> \o ss

\* sort.Strings: ascending byte order of the strings themselves.
RECURSIVE SortStrings(_)
SortStrings(ss) ==
    IF ss = <<>> THEN <<>>
    ELSE InsertSorted(Head(ss), SortStrings(Tail(ss)))

\* strings.Join
RECURSIVE Join(_, _)
Join(ss, sep) ==
    IF ss = <<>> THEN <<>>
    ELSE IF Len(ss) = 1 THEN ss[1]
    ELSE ss[1] \o sep \o Join(Tail(ss), sep)

\* The escaped body of a %q rendering (strconv.Quote): a double quote becomes
\* backslash-quote, a backslash becomes two backslashes, a newline becomes
\* backslash-n, printable bytes stand for themselves.
RECURSIVE Escape(_)
Escape(s) ==
    IF s = <<>> THEN <<>>
    ELSE (CASE Head(s) = 34 -> <<92, 34>>
            [] Head(s) = 92 -> <<92, 92>>
            [] Head(s) = 10 -> <<92, 110>>
            [] OTHER -> <<Head(s)>>) \o Escape(Tail(s))

\* fmt's %q of a string.
Quote(s) == <<34>> \o Escape(s) \o <<34>>

\* fmt.Sprintf("%s=%q", label, value)
LabelString(label, value) == label \o <<61>> \o Quote(value)

\* All orders in which a range loop may visit the keys of a map.
Orders(S) ==
    {o \in [1..Cardinality(S) -> S] : \A i, j \in 1..Cardinality(S) : o[i] = o[j] => i = j}

----------------------------------------------------------------------------
(* Metric *)

\* The labels seen through a Metric reference; a nil map reads as empty.
Labels(h, ref) == IF ref = Nil THEN <<>> ELSE h[ref]

\* Metric.Equal, delegating to LabelSet.Equal: same names, same values.
Equal(m, o) ==
    /\ DOMAIN m = DOMAIN o
    /\ \A k \in DOMAIN m : m[k] = o[k]

\* Metric.Clone: the contents of the fresh map.
Clone(m) == [k \in DOMAIN m |-> m[k]]

\* A Clone that hands back the receiver's own map.
CloneCall_Alias(h, ref) == [heap |-> h, ref |-> ref]

\* Metric.Clone as a call on a reference: a new map is allocated and filled.
CloneCall(h, ref) == [heap |-> Append(h, Clone(Labels(h, ref))), ref |-> Len(h) + 1]

\* A canonical byte string of a label set: its names in byte order, each
\* followed by the separator byte, its value and the separator byte.
Canon(m) ==
    LET names == SortStrings(CHOOSE o \in Orders(DOMAIN m) : TRUE)
    IN  Join([i \in 1..Len(names) |-> names[i] \o <<0>> \o m[names[i]] \o <<0>>], <<>>)

\* LabelSet.Before: a strict total order on label sets.
Before(m, o) == StrLess(Canon(m), Canon(o))

\* Metric.Equal
MetricEqual(m, o) == Equal(m, o)

\* A Before that answers "not after".
MetricBefore_NotAfter(m, o) == ~Before(o, m)

\* Metric.Before
MetricBefore(m, o) == Before(m, o)

\* The loop of Metric.String: the label strings collected in visiting order.
RECURSIVE CollectLabelStrings(_, _)
CollectLabelStrings(m, order) ==
    IF order = <<>> THEN <<>>
    ELSE (IF Head(order) # MetricNameLabel
            THEN <<LabelString(Head(order), m[Head(order)])>>
            ELSE <<>>) \o CollectLabelStrings(m, Tail(order))

\* Metric.String with the sort.Strings call left out.
MetricString_NoSort(m, order) ==
    LET hasName == MetricNameLabel \in DOMAIN m
        metricName == IF hasName THEN m[MetricNameLabel] ELSE <<>>
        numLabels == IF hasName THEN Cardinality(DOMAIN m) - 1 ELSE Cardinality(DOMAIN m)
        labelStrings == CollectLabelStrings(m, order)
    IN  IF numLabels = 0
          THEN (IF hasName THEN metricName ELSE <<123, 125>>)
          ELSE metricName \o <<123>> \o Join(labelStrings, <<44, 32>>) \o <<125>>

\* Metric.String with numLabels always len(m) - 1, the !hasName adjustment left out.
MetricString_NoAdjust(m, order) ==
    LET hasName == MetricNameLabel \in DOMAIN m
        metricName == IF hasName THEN m[MetricNameLabel] ELSE <<>>
        numLabels == Cardinality(DOMAIN m) - 1
        labelStrings == CollectLabelStrings(m, order)
    IN  IF numLabels = 0
          THEN (IF hasName THEN metricName ELSE <<123, 125>>)
          ELSE metricName \o <<123>> \o Join(SortStrings(labelStrings), <<44, 32>>) \o <<125>>

\* Metric.String, with the map visited in the given order.
MetricString(m, order) ==
    LET hasName == MetricNameLabel \in DOMAIN m
        metricName == IF hasName THEN m[MetricNameLabel] ELSE <<>>
        numLabels == IF hasName THEN Cardinality(DOMAIN m) - 1 ELSE Cardinality(DOMAIN m)
        labelStrings == CollectLabelStrings(m, order)
    IN  IF numLabels = 0
          THEN (IF hasName THEN metricName ELSE <<123, 125>>)
          ELSE metricName \o <<123>> \o Join(SortStrings(labelStrings), <<44, 32>>) \o <<125>>

\* One "key":"value" member of encoding/json's rendering of a string map.
RECURSIVE JSONMembers(_, _)
JSONMembers(m, keys) ==
    IF keys = <<>> THEN <<>>
    ELSE <<Quote(Head(keys)) \o <<58>> \o Quote(m[Head(keys)])>> \o JSONMembers(m, Tail(keys))

\* json.Marshal of a Metric: null for the nil map, else an object with sorted keys.
JSONMarshal(h, ref, order) ==
    IF ref = Nil THEN <<110, 117, 108, 108>>
    ELSE <<123>> \o Join(JSONMembers(h[ref], SortStrings(order)), <<44>>) \o <<125>>

----------------------------------------------------------------------------
(* COWMetric.  The machine state st is [x, heap, clones, panic]. *)

\* doCOW that flips the flag but keeps the borrowed map.
doCOW_NoClone(st) ==
    IF ~st.x.Copied
      THEN [st EXCEPT !.x = [Copied |-> TRUE, Metric |-> st.x.Metric]]
      ELSE st

\* doCOW that clones but never records that it did.
doCOW_NoFlag(st) ==
    IF ~st.x.Copied
      THEN [st EXCEPT !.heap = Append(st.heap, Clone(Labels(st.heap, st.x.Metric))),
                      !.x = [Copied |-> FALSE, Metric |-> Len(st.heap) + 1],
                      !.clones = st.clones + 1]
      ELSE st

\* COWMetric.doCOW
doCOW(st) ==
    IF ~st.x.Copied
      THEN [st EXCEPT !.heap = Append(st.heap, Clone(Labels(st.heap, st.x.Metric))),
                      !.x = [Copied |-> TRUE, Metric |-> Len(st.heap) + 1],
                      !.clones = st.clones + 1]
      ELSE st

\* m.Metric[ln] = lv: a write to the nil map panics.
MapStore(st, ln, lv) ==
    IF st.x.Metric = Nil
      THEN [st EXCEPT !.panic = TRUE]
      ELSE [st EXCEPT !.heap[st.x.Metric] =
                [k \in DOMAIN @ \cup {ln} |-> IF k = ln THEN lv ELSE @[k]]]

\* A delete that removes nothing.
MapDelete_Keep(st, ln) == st

\* delete(m.Metric, ln): no-op when ln is absent or the map is nil.
MapDelete(st, ln) ==
    IF st.x.Metric = Nil
      THEN st
      ELSE [st EXCEPT !.heap[st.x.Metric] = [k \in DOMAIN @ \ {ln} |-> @[k]]]

\* COWMetric.Set
SetCall(st, ln, lv) == MapStore(doCOW(st), ln, lv)

\* COWMetric.Del
DelCall(st, ln) == MapDelete(doCOW(st), ln)

\* A String that takes ownership before rendering.
StringCall_COW(st) == doCOW(st)

\* COWMetric.String and COWMetric.MarshalJSON have value receivers and only read.
StringCall(st) == st

MarshalJSONCall(st) == st

----------------------------------------------------------------------------
(* State machine *)

\* What the single-holder and plain-Metric runs leave alone.
NoSecondHolder == x2 = [Copied |-> FALSE, Metric |-> Nil] /\ want = <<>>

NoThreads == thr = <<>>

Now == [x |-> x, heap |-> heap, clones |-> clones, panic |-> FALSE]

NoCall ==
    [op |-> "none", ln |-> <<>>, lv |-> <<>>, pre |-> Now, panic |-> FALSE, out |-> <<>>]

\* X is built as a struct literal around a Metric (possibly the nil map) that
\* the holder Y references too, with either value of Copied.
Init ==
    /\ \E m \in Metrics, ref \in {Nil, 1}, c \in BOOLEAN :
          /\ heap = IF ref = Nil THEN <<>> ELSE <<m>>
          /\ x = [Copied |-> c, Metric |-> ref]
          /\ y = ref
          /\ born = [Copied |-> c, labels |-> IF ref = Nil THEN <<>> ELSE m]
    /\ clones = 0
    /\ last = NoCall
    /\ clone = Nil
    /\ NoSecondHolder
    /\ NoThreads

Commit(st) ==
    /\ x' = st.x
    /\ heap' = st.heap
    /\ clones' = st.clones
    /\ UNCHANGED <<y, born, clone, x2, want, thr>>

Alive == ~last.panic

Set(ln, lv) ==
    /\ Alive
    /\ Cardinality(DOMAIN Labels(heap, x.Metric) \cup {ln}) <= MaxLabels
    /\ LET st == SetCall(Now, ln, lv)
       IN  /\ Commit(st)
           /\ last' = [op |-> "Set", ln |-> ln, lv |-> lv, pre |-> Now,
                       panic |-> st.panic, out |-> <<>>]

Del(ln) ==
    /\ Alive
    /\ LET st == DelCall(Now, ln)
       IN  /\ Commit(st)
           /\ last' = [op |-> "Del", ln |-> ln, lv |-> <<>>, pre |-> Now,
                       panic |-> st.panic, out |-> <<>>]

String ==
    /\ Alive
    /\ \E order \in Orders(DOMAIN Labels(heap, x.Metric)) :
          LET st == StringCall(Now)
          IN  /\ Commit(st)
              /\ last' = [op |-> "String", ln |-> <<>>, lv |-> <<>>, pre |-> Now,
                          panic |-> st.panic,
                          out |-> MetricString(Labels(st.heap, st.x.Metric), order)]

MarshalJSON ==
    /\ Alive
    /\ \E order \in Orders(DOMAIN Labels(heap, x.Metric)) :
          LET st == MarshalJSONCall(Now)
          IN  /\ Commit(st)
              /\ last' = [op |-> "MarshalJSON", ln |-> <<>>, lv |-> <<>>, pre |-> Now,
                          panic |-> st.panic,
                          out |-> JSONMarshal(st.heap, st.x.Metric, order)]

Next ==
    \/ \E ln \in LabelNames, lv \in LabelValues : Set(ln, lv)
    \/ \E ln \in LabelNames : Del(ln)
    \/ String
    \/ MarshalJSON

Spec == Init /\ [][Next]_vars

----------------------------------------------------------------------------
(* Plain Metrics: Y's Metric A, its clone, edits of either map, comparisons *)

\* The state with the map at ref in the place the map operations address.
At(ref) == [Now EXCEPT !.x = [Copied |-> TRUE, Metric |-> ref]]

\* Y holds a Metric A (possibly the nil map); no COWMetric is involved.
InitMetric ==
    /\ \E m \in Metrics, ref \in {Nil, 1} :
          /\ heap = IF ref = Nil THEN <<>> ELSE <<m>>
          /\ y = ref
    /\ x = [Copied |-> FALSE, Metric |-> Nil]
    /\ born = [Copied |-> FALSE, labels |-> <<>>]
    /\ clones = 0
    /\ last = NoCall
    /\ clone = Nil
    /\ NoSecondHolder
    /\ NoThreads

MetricClone ==
    /\ clone = Nil
    /\ LET r == CloneCall(heap, y)
       IN  /\ heap' = r.heap
           /\ clone' = r.ref
           /\ clones' = clones + 1
           /\ last' = [op |-> "Clone", ln |-> <<>>, lv |-> <<>>, pre |-> Now,
                       panic |-> FALSE, out |-> <<>>, on |-> y]
    /\ UNCHANGED <<x, y, born, x2, want, thr>>

\* m[ln] = lv on the original or on the clone.
MetricStore(ref, ln, lv) ==
    /\ clone # Nil
    /\ ref \in {y, clone} \ {Nil}
    /\ Cardinality(DOMAIN Labels(heap, ref) \cup {ln}) <= MaxLabels
    /\ heap' = MapStore(At(ref), ln, lv).heap
    /\ last' = [op |-> "Store", ln |-> ln, lv |-> lv, pre |-> Now,
                panic |-> FALSE, out |-> <<>>, on |-> ref]
    /\ UNCHANGED <<x, y, born, clones, clone, x2, want, thr>>

\* delete(m, ln) on the original or on the clone.
MetricDelete(ref, ln) ==
    /\ clone # Nil
    /\ ref \in {y, clone}
    /\ heap' = MapDelete(At(ref), ln).heap
    /\ last' = [op |-> "Delete", ln |-> ln, lv |-> <<>>, pre |-> Now,
                panic |-> FALSE, out |-> <<>>, on |-> ref]
    /\ UNCHANGED <<x, y, born, clones, clone, x2, want, thr>>

\* A.Equal(C), A.Before(C) and C.Before(A) for the original A and the other map C.
MetricCompare ==
    /\ clone # Nil
    /\ last' = [op |-> "Compare", ln |-> <<>>, lv |-> <<>>, pre |-> Now,
                panic |-> FALSE,
                out |-> <<MetricEqual(Labels(heap, y), Labels(heap, clone)),
                          MetricBefore(Labels(heap, y), Labels(heap, clone)),
                          MetricBefore(Labels(heap, clone), Labels(heap, y))>>,
                on |-> y]
    /\ UNCHANGED <<heap, x, y, born, clones, clone, x2, want, thr>>

NextMetric ==
    \/ MetricClone
    \/ \E ref \in {1, 2}, ln \in LabelNames, lv \in LabelValues : MetricStore(ref, ln, lv)
    \/ \E ref \in {0, 1, 2}, ln \in LabelNames : MetricDelete(ref, ln)
    \/ MetricCompare

SpecMetric == InitMetric /\ [][NextMetric]_vars

----------------------------------------------------------------------------
(* Two COWMetrics, X and X2, both built Borrowed around the same Metric M *)

Holders == {1, 2}

\* The names the two holders edit.
EditNames == {LabelA, LabelB}

Holder(h) == IF h = 1 THEN x ELSE x2

\* The state as the methods of holder h see it.
NowOf(h) == [Now EXCEPT !.x = Holder(h)]

InitTwo ==
    /\ \E m \in Metrics, ref \in {Nil, 1} :
          /\ heap = IF ref = Nil THEN <<>> ELSE <<m>>
          /\ x = [Copied |-> FALSE, Metric |-> ref]
          /\ x2 = [Copied |-> FALSE, Metric |-> ref]
          /\ y = ref
          /\ born = [Copied |-> FALSE, labels |-> IF ref = Nil THEN <<>> ELSE m]
          /\ want = <<born.labels, born.labels>>
    /\ clones = 0
    /\ last = NoCall
    /\ clone = Nil
    /\ NoThreads

CommitOf(h, st) ==
    /\ x' = IF h = 1 THEN st.x ELSE x
    /\ x2' = IF h = 2 THEN st.x ELSE x2
    /\ heap' = st.heap
    /\ clones' = st.clones
    /\ UNCHANGED <<y, born, last, clone, thr>>

\* A whole Set call on holder h.
SetOf(h, ln, lv) ==
    /\ Cardinality(DOMAIN Labels(heap, Holder(h).Metric) \cup {ln}) <= MaxLabels
    /\ CommitOf(h, SetCall(NowOf(h), ln, lv))
    /\ want' = [want EXCEPT ![h] =
                   [k \in DOMAIN @ \cup {ln} |-> IF k = ln THEN lv ELSE @[k]]]

\* A whole Del call on holder h.
DelOf(h, ln) ==
    /\ CommitOf(h, DelCall(NowOf(h), ln))
    /\ want' = [want EXCEPT ![h] = [k \in DOMAIN @ \ {ln} |-> @[k]]]

NextTwo ==
    \/ \E h \in Holders, ln \in EditNames, lv \in LabelValues : SetOf(h, ln, lv)
    \/ \E h \in Holders, ln \in EditNames : DelOf(h, ln)

SpecTwo == InitTwo /\ [][NextTwo]_vars

----------------------------------------------------------------------------
(* Two threads each calling Set or Del on the one COWMetric X, built Borrowed *)
(* around M, with no synchronization.  Memory is sequentially consistent: a   *)
(* step is one read or write of a field of X, one Clone, or one map write.    *)

Threads == {1, 2}

\* The calls a thread may make.
Calls ==
    {[op |-> "Set", ln |-> ln, lv |-> lv] : ln \in EditNames, lv \in LabelValues}
        \cup {[op |-> "Del", ln |-> ln, lv |-> <<>>] : ln \in EditNames}

\* The names the calls of cs set.
NamesSet(cs) == {cl.ln : cl \in {k \in cs : k.op = "Set"}}

\* doCOW with the flag written before the wrapped Metric is replaced.
doCOWSteps_FlagFirst == <<"clone", "writeCopied", "writeMetric">>

\* The steps of doCOW's body, in program order: m.Metric.Clone(), the
\* assignment to m.Metric, the assignment to m.Copied.
doCOWSteps == <<"clone", "writeMetric", "writeCopied">>

\* The position after the doCOW step pc: its next step, or the map access of
\* the caller.
Following(pc) ==
    LET i == CHOOSE k \in 1..Len(doCOWSteps) : doCOWSteps[k] = pc
    IN  IF i < Len(doCOWSteps) THEN doCOWSteps[i + 1] ELSE "load"

InitConc ==
    /\ \E m \in Metrics, ref \in {Nil, 1}, c1 \in Calls, c2 \in Calls :
          /\ Cardinality(
                (IF ref = Nil THEN {} ELSE DOMAIN m) \cup NamesSet({c1, c2})) <= MaxLabels
          /\ heap = IF ref = Nil THEN <<>> ELSE <<m>>
          /\ x = [Copied |-> FALSE, Metric |-> ref]
          /\ y = ref
          /\ born = [Copied |-> FALSE, labels |-> IF ref = Nil THEN <<>> ELSE m]
          /\ thr = [t \in Threads |->
                      [pc |-> "call", call |-> IF t = 1 THEN c1 ELSE c2,
                       copied |-> FALSE, ref |-> Nil]]
    /\ clones = 0
    /\ last = NoCall
    /\ clone = Nil
    /\ NoSecondHolder

\* if !m.Copied
ReadCopied(t) ==
    /\ thr[t].pc = "call"
    /\ thr' = [thr EXCEPT ![t].copied = x.Copied,
                          ![t].pc = IF x.Copied THEN "load" ELSE doCOWSteps[1]]
    /\ UNCHANGED <<heap, x, y, born, clones, last, clone, x2, want>>

\* m.Metric.Clone()
CloneStep(t) ==
    /\ thr[t].pc = "clone"
    /\ LET r == CloneCall(heap, x.Metric)
       IN  /\ heap' = r.heap
           /\ thr' = [thr EXCEPT ![t].ref = r.ref, ![t].pc = Following("clone")]
    /\ clones' = clones + 1
    /\ UNCHANGED <<x, y, born, last, clone, x2, want>>

\* m.Metric = (the clone)
WriteMetric(t) ==
    /\ thr[t].pc = "writeMetric"
    /\ x' = [x EXCEPT !.Metric = thr[t].ref]
    /\ thr' = [thr EXCEPT ![t].pc = Following("writeMetric")]
    /\ UNCHANGED <<heap, y, born, clones, last, clone, x2, want>>

\* m.Copied = true
WriteCopied(t) ==
    /\ thr[t].pc = "writeCopied"
    /\ x' = [x EXCEPT !.Copied = TRUE]
    /\ thr' = [thr EXCEPT ![t].pc = Following("writeCopied")]
    /\ UNCHANGED <<heap, y, born, clones, last, clone, x2, want>>

\* The read of m.Metric in m.Metric[ln] = lv and in delete(m.Metric, ln).
LoadMetric(t) ==
    /\ thr[t].pc = "load"
    /\ thr' = [thr EXCEPT ![t].ref = x.Metric, ![t].pc = "store"]
    /\ UNCHANGED <<heap, x, y, born, clones, last, clone, x2, want>>

\* The map write or delete on the map that was read.
MapWrite(t) ==
    /\ thr[t].pc = "store"
    /\ LET cl == thr[t].call
           st == IF cl.op = "Set" THEN MapStore(At(thr[t].ref), cl.ln, cl.lv)
                                  ELSE MapDelete(At(thr[t].ref), cl.ln)
       IN  /\ heap' = st.heap
           /\ thr' = [thr EXCEPT ![t].pc = IF st.panic THEN "panic" ELSE "done"]
    /\ UNCHANGED <<x, y, born, clones, last, clone, x2, want>>

NextConc ==
    \E t \in Threads :
        \/ ReadCopied(t)
        \/ CloneStep(t)
        \/ WriteMetric(t)
        \/ WriteCopied(t)
        \/ LoadMetric(t)
        \/ MapWrite(t)

SpecConc == InitConc /\ [][NextConc]_vars

----------------------------------------------------------------------------
(* Properties *)

MutatingOps == {"Set", "Del"}

ReadOps == {"String", "MarshalJSON"}

\* The labels X wraps now, and those it wrapped before the latest call.
Wrapped == Labels(heap, x.Metric)

WrappedBefore == Labels(last.pre.heap, last.pre.x.Metric)

\* Labels other than ln have the same presence and value in m as in p.
SameExcept(m, p, ln) ==
    \A n \in LabelNames \ {ln} :
        /\ n \in DOMAIN m <=> n \in DOMAIN p
        /\ n \in DOMAIN p => m[n] = p[n]

\* The non-name labels of m.
OtherLabels(m) == DOMAIN m \ {MetricNameLabel}

\* name{e1, e2, ...}: the entries label="value" of the labels in the order o.
Rendering(m, o) ==
    (IF MetricNameLabel \in DOMAIN m THEN m[MetricNameLabel] ELSE <<>>)
        \o <<123>>
        \o Join([i \in 1..Len(o) |-> o[i] \o <<61, 34>> \o Escape(m[o[i]]) \o <<34>>], <<44, 32>>)
        \o <<125>>

\* C1: for X constructed Borrowed around M, after any sequence of X.Set and
\* X.Del calls the labels seen through the other holder Y are M's labels at
\* the time X was constructed.
COWIsolation == ~born.Copied => Labels(heap, y) = born.labels

\* C1 witness: X, constructed Borrowed around a non-nil M, has been edited and
\* now shows labels different from those Y still sees.
COWIsolationWitness ==
    /\ ~born.Copied
    /\ y # Nil
    /\ last.op \in MutatingOps
    /\ Wrapped # Labels(heap, y)

\* C2: for X constructed Borrowed, the total number of clones never exceeds 1;
\* after any Set or Del it is exactly 1 (the first mutation clones once), and
\* a mutation made after the first one clones nothing and leaves the wrapped
\* Metric reference the same object.
AtMostOneClone ==
    ~born.Copied =>
        /\ clones <= 1
        /\ last.op \in MutatingOps =>
              /\ clones = 1
              /\ last.pre.clones = 1 =>
                    /\ clones = last.pre.clones
                    /\ x.Metric = last.pre.x.Metric

\* C2 witness: a later mutation changed the contents of the clone made by the
\* first one, the reference staying the same.
AtMostOneCloneWitness ==
    /\ ~born.Copied
    /\ last.op \in MutatingOps
    /\ last.pre.clones = 1
    /\ x.Metric = last.pre.x.Metric
    /\ Wrapped # WrappedBefore

\* C3: a Set or Del leaves X Owned (also a Del of an absent label on a
\* Borrowed X), and once Copied is true it stays true in every later state.
CopiedStateMachine ==
    /\ [](last.op \in MutatingOps => x.Copied)
    /\ [][x.Copied => x'.Copied]_vars

\* C3 witness: a Del of an absent label moved a Borrowed X to Owned.
CopiedStateMachineWitness ==
    /\ last.op = "Del"
    /\ ~last.pre.x.Copied
    /\ last.ln \notin DOMAIN WrappedBefore
    /\ x.Copied

\* C4: String and MarshalJSON leave Copied, the wrapped reference and every
\* Metric's labels unchanged and perform no Clone.
ReadOnlyOps ==
    last.op \in ReadOps =>
        /\ x = last.pre.x
        /\ heap = last.pre.heap
        /\ clones = last.pre.clones

\* C4 witness: String was called on a Borrowed X wrapping a non-empty Metric.
ReadOnlyOpsWitness ==
    /\ last.op = "String"
    /\ ~last.pre.x.Copied
    /\ WrappedBefore # <<>>

\* C5 as stated: whatever X's state when Set is called, the labels seen
\* through the other holder's reference are the same after the call as before.
SetLeavesHoldersAlone ==
    last.op = "Set" => Labels(heap, y) = Labels(last.pre.heap, y)

\* C5 amended: a Set changes no Metric that existed before the call, except
\* the one X wraps when X is already Owned at the time of the call.
SetLeavesOthersAlone ==
    last.op = "Set" =>
        \A a \in DOMAIN last.pre.heap :
            \/ last.pre.x.Copied /\ a = last.pre.x.Metric
            \/ heap[a] = last.pre.heap[a]

\* C5 witness: a Set on a Borrowed X wrapping a non-nil Metric that Y holds
\* changed what X shows.
SetLeavesOthersAloneWitness ==
    /\ last.op = "Set"
    /\ ~last.pre.x.Copied
    /\ y # Nil
    /\ y = last.pre.x.Metric
    /\ Wrapped # WrappedBefore

\* C6: after X.Set(name, value) from any state X is Owned, the wrapped Metric
\* maps name to value, and every other label has the presence and value it had.
SetPostcondition ==
    last.op = "Set" =>
        /\ x.Copied
        /\ last.ln \in DOMAIN Wrapped
        /\ Wrapped[last.ln] = last.lv
        /\ SameExcept(Wrapped, WrappedBefore, last.ln)

\* C7: after X.Del(name) from any state X is Owned, name is absent, every
\* other label keeps its presence and value, a Del of an absent name leaves
\* the mapping as it was, and the call does not fail.
DelPostcondition ==
    last.op = "Del" =>
        /\ ~last.panic
        /\ x.Copied
        /\ last.ln \notin DOMAIN Wrapped
        /\ SameExcept(Wrapped, WrappedBefore, last.ln)
        /\ last.ln \notin DOMAIN WrappedBefore => Wrapped = WrappedBefore

\* C7 witness: a Del removed a present label and another label remained.
DelPostconditionWitness ==
    /\ last.op = "Del"
    /\ last.ln \in DOMAIN WrappedBefore
    /\ Wrapped # <<>>

\* C8: with two or more non-name labels, String lists the entries in the
\* byte order of the label names.
StringSortedByName ==
    (last.op = "String" /\ Cardinality(OtherLabels(WrappedBefore)) >= 2) =>
        \E o \in Orders(OtherLabels(WrappedBefore)) :
            /\ \A i, j \in 1..Len(o) : i < j => StrLess(o[i], o[j])
            /\ last.out = Rendering(WrappedBefore, o)

\* C9: String yields the name value when the name is the only label, "{}"
\* when there is no label, and otherwise the name value (empty when absent),
\* '{', the entries of every non-name label once each joined by ", ", and '}'.
StringCases ==
    last.op = "String" =>
        LET m == WrappedBefore
        IN  IF DOMAIN m = {MetricNameLabel} THEN last.out = m[MetricNameLabel]
            ELSE IF DOMAIN m = {} THEN last.out = <<123, 125>>
            ELSE \E o \in Orders(OtherLabels(m)) : last.out = Rendering(m, o)

\* C9 witness: String rendered a Metric with the name label and another label.
StringCasesWitness ==
    /\ last.op = "String"
    /\ MetricNameLabel \in DOMAIN WrappedBefore
    /\ OtherLabels(WrappedBefore) # {}

\* C10: the result of String on X's Metric is the result of String on every
\* Metric Equal to it, under every order in which that Metric's map may be
\* visited.
StringDeterministic ==
    last.op = "String" =>
        \A a \in DOMAIN heap \cup {Nil} :
            Equal(Labels(heap, a), Wrapped) =>
                \A o \in Orders(DOMAIN Labels(heap, a)) :
                    MetricString(Labels(heap, a), o) = last.out

\* C10 witness: String rendered X's clone while Y's Metric, a different map,
\* is Equal to it and has two non-name labels.
StringDeterministicWitness ==
    /\ last.op = "String"
    /\ y # Nil
    /\ x.Metric # y
    /\ Equal(Labels(heap, y), Wrapped)
    /\ Cardinality(OtherLabels(Wrapped)) >= 2

\* C11: a clone is Equal to its original when made and is another map; an
\* insertion, overwrite or deletion on the clone leaves the original's labels
\* as they were, and one on the original leaves the clone's labels as they were.
CloneIndependence ==
    /\ last.op = "Clone" =>
          /\ clone # y
          /\ MetricEqual(Labels(heap, y), Labels(heap, clone))
          /\ Labels(heap, y) = Labels(last.pre.heap, y)
    /\ last.op \in {"Store", "Delete"} =>
          /\ last.on = clone => Labels(heap, y) = Labels(last.pre.heap, y)
          /\ last.on = y => Labels(heap, clone) = Labels(last.pre.heap, clone)

\* C11 witness: the original was changed after the clone was made and the
\* clone still shows other labels.
CloneIndependenceWitness ==
    /\ last.op \in {"Store", "Delete"}
    /\ last.on = y
    /\ Labels(heap, y) # Labels(last.pre.heap, y)
    /\ Labels(heap, clone) # Labels(heap, y)

\* C12: no call fails: Set, Del, String and MarshalJSON complete without a
\* panic from every state, also when X wraps the nil Metric with Copied false
\* or true, and the nil Metric reads as the empty label set.
Totality ==
    /\ ~last.panic
    /\ x.Metric = Nil => DOMAIN Wrapped = {}

\* C13: MarshalJSON's result depends on the wrapped labels only: it is the
\* serialization of every Metric (Y's included) holding the same labels as the
\* one X wraps, whatever X's Copied flag and history.
JSONDependsOnLabelsOnly ==
    last.op = "MarshalJSON" =>
        \A a \in DOMAIN heap \cup {y} :
            Labels(heap, a) = Wrapped =>
                \A o \in Orders(DOMAIN Labels(heap, a)) :
                    JSONMarshal(heap, a, o) = last.out

\* C16: for X constructed Borrowed around M: while Copied is false X wraps M
\* itself, has made no clone and M's labels are those at construction; when
\* Copied is true X wraps another map, one allocated by its own single Clone.
OwnershipInvariant ==
    ~born.Copied =>
        /\ ~x.Copied =>
              /\ x.Metric = y
              /\ clones = 0
              /\ Labels(heap, y) = born.labels
        /\ x.Copied =>
              /\ x.Metric # y
              /\ x.Metric \in DOMAIN heap
              /\ x.Metric > y
              /\ clones = 1

\* C16 witness: X, constructed Borrowed around a non-nil M, is Owned after a
\* mutation.
OwnershipInvariantWitness ==
    /\ ~born.Copied
    /\ y # Nil
    /\ x.Copied
    /\ last.op \in MutatingOps
    /\ ~last.pre.x.Copied

\* C18: X constructed Owned never clones: it keeps wrapping the Metric it was
\* given, and every Set and Del is applied to that Metric, so it shows through
\* the other holder's reference to it.
OwnedNeverClones ==
    born.Copied =>
        /\ clones = 0
        /\ x.Copied
        /\ x.Metric = y
        /\ last.op = "Set" =>
              /\ last.ln \in DOMAIN Labels(heap, y)
              /\ Labels(heap, y)[last.ln] = last.lv
        /\ last.op = "Del" => last.ln \notin DOMAIN Labels(heap, y)

\* C15: for all Metrics A and B exactly one of A.Before(B), B.Before(A) and
\* A.Equal(B) holds, and A.Equal(B) holds exactly when both have the same
\* label names and every name has the same value in both.
StrictTotalOrder ==
    last.op = "Compare" =>
        LET a == Labels(heap, y)
            b == Labels(heap, clone)
            eq == last.out[1]
            lt == last.out[2]
            gt == last.out[3]
        IN  /\ \/ eq /\ ~lt /\ ~gt
               \/ ~eq /\ lt /\ ~gt
               \/ ~eq /\ ~lt /\ gt
            /\ eq <=> (DOMAIN a = DOMAIN b /\ \A n \in DOMAIN a : a[n] = b[n])

\* C15 witness: two Metrics with the same label names and different values
\* were compared, and neither was Equal to the other.
StrictTotalOrderWitness ==
    /\ last.op = "Compare"
    /\ DOMAIN Labels(heap, y) = DOMAIN Labels(heap, clone)
    /\ Labels(heap, y) # Labels(heap, clone)
    /\ ~last.out[1]

\* C17: with X and X2 both built Borrowed around M, after any interleaving of
\* whole Set and Del calls each of them shows M's labels at construction with
\* its own edits applied in order, and M itself shows its labels at construction.
MutualIsolation ==
    /\ \A h \in Holders : Labels(heap, Holder(h).Metric) = want[h]
    /\ Labels(heap, y) = born.labels

\* C17 witness: both holders have edited, and X, X2 and M show three
\* different label sets.
MutualIsolationWitness ==
    /\ x.Copied
    /\ x2.Copied
    /\ want[1] # want[2]
    /\ want[1] # born.labels
    /\ want[2] # born.labels

\* Both threads' calls have returned.
BothReturned == \A t \in Threads : thr[t].pc = "done"

\* The Metric X wraps lacks the edit of thread t's call.
Lacks(t) ==
    LET cl == thr[t].call
    IN  IF cl.op = "Set"
          THEN cl.ln \notin DOMAIN Wrapped \/ Wrapped[cl.ln] # cl.lv
          ELSE cl.ln \in DOMAIN Wrapped

\* The two calls edit different names and the wrapped Metric lacks one edit.
LostUpdate ==
    /\ BothReturned
    /\ thr[1].call.ln # thr[2].call.ln
    /\ \E t \in Threads : Lacks(t)

\* The maps allocated by a Clone: all but the original M.
Cloned == {a \in DOMAIN heap : a > y}

\* C14: unsynchronized calls can lose an update (the witness below); when
\* they do, doCOW's check was passed twice and more than one clone was made.
LostUpdateNeedsTwoClones == LostUpdate => clones > 1

\* C14 witness: both calls have returned, they edit different names, and the
\* finally wrapped Metric lacks the edit of one of them, after two clones.
LostUpdateWitness == LostUpdate /\ clones > 1

\* C19: under every interleaving of the steps no step writes the original M:
\* M keeps its labels, and the map a call is about to write, or has written,
\* is one allocated by a Clone; no call panics.
NoWriteToOriginal ==
    /\ Labels(heap, y) = born.labels
    /\ \A t \in Threads :
          /\ thr[t].pc # "panic"
          /\ thr[t].pc \in {"store", "done"} => thr[t].ref \in Cloned

\* C19 witness: a call that found Copied already true, and so made no clone
\* of its own, has written the other call's clone of a non-nil M.
NoWriteToOriginalWitness ==
    /\ y # Nil
    /\ BothReturned
    /\ clones = 1
    /\ \E t \in Threads : thr[t].copied /\ thr[t].ref \in Cloned
    /\ Wrapped # born.labels

====
